---- MODULE Spec2Model ----
(***************************************************************************)
(* Job lifecycle of the video composition API.                             *)
(*                                                                         *)
(* State: the jobs table (models/database.py, class Job), the clock read   *)
(* by datetime.utcnow(), and the position of every in-flight               *)
(* POST /jobs/{job_id}/process request (api/endpoints/jobs.py,             *)
(* process_job).  Each await of a JobService method is one atomic step on  *)
(* the table: the commit is its linearisation point, and requests          *)
(* interleave between awaits.                                              *)
(***************************************************************************)
EXTENDS Integers, Sequences, FiniteSets, TLC

\* ---------------------------------------------------------------- bounds
MaxJobs == 2
MaxReqs == 2
MaxScenes == 1
MaxDbFaults == 1
MaxCalls == 2
MaxRenderScenes == 3
MaxRuns == 2
MaxDur == 4
MaxFiles == 1
MaxChecks == 3
MaxWindows == 2
\* settings.rate_limit_requests (core/settings.py:69, 100 unless configured),
\* taken small
RateLimitRequests == 2

\* ------------------------------------------------------- program constants
\* models/database.py:56   max_retries ... default=3
DefaultMaxRetries == 3
\* services/video_service.py:150   duration: float = 0.5  (in eighths of a second)
DefaultTransitionDuration == 4

JobIds == 1..MaxJobs
\* The check_rate_limit invocations.
Checks == 1..MaxChecks
\* The rate-limit windows: int(time.time()) // settings.rate_limit_window
Windows == 1..MaxWindows
\* The compose_video invocations.
Runs == 1..MaxRuns
Reqs == 1..MaxReqs
\* Two distinct members of settings.api_keys: the authenticated callers.
Keys == {"k1", "k2"}

\* Optional[...] columns: None is the empty sequence, a value v is <<v>>.
None == << >>
Some(v) == <<v>>

\* job_service.py:137 / database.py:90  the finished statuses
Finished == {"completed", "failed", "cancelled"}

\* The webhook_url a caller passes to create_job: none, or a URL.
WebhookUrls == {None, Some("hook")}

\* What a scene's source turns out to be when the pipeline resolves and
\* decodes it: usable media, or a URL that cannot be fetched.
SceneSources == {"good", "unreachable"}

RECURSIVE SeqsUpTo(_, _)
SeqsUpTo(S, n) ==
    IF n = 0 THEN { << >> }
    ELSE LET shorter == SeqsUpTo(S, n - 1)
         IN shorter \cup { Append(s, x) : s \in { t \in shorter : Len(t) = n - 1 }, x \in S }

\* The "scenes" dictionary of a VideoCompositionRequest, in insertion order.
SceneLists == SeqsUpTo(SceneSources, MaxScenes)

VARIABLES
    jobs,     \* the jobs table: job id -> row, for the ids that have a row
    nextId,   \* the next fresh id (uuid4 never repeats)
    now,      \* datetime.utcnow()
    pc,       \* process_job request -> where it stands
    rjob,     \* process_job request in the try block -> its job_id
    rkey,     \* process_job request in the try block -> its api_key
    faults,   \* database exceptions raised so far
    resp,     \* the HTTP response the last step sent (op "none": it sent none)
    calls,    \* JobService methods called directly, not through an endpoint
    ret,      \* what the last direct call of a JobService method returned
    at,       \* a call of apply_transition: its arguments and its result
    cv,       \* compose_video invocation -> its local state
    temp_dir, \* the shared temp directory: path -> the invocations that wrote it
    output_dir, \* the shared output directory: the paths in it
    files,    \* the uploaded_files table: the owner of each record, in order
    gate      \* the rate-limit counters in Redis and the checks in flight

\* The variables of the render pipeline (services/video_service.py).
pipeline == <<at, cv, temp_dir, output_dir>>

\* The variables of the job side.
lifecycle == <<jobs, nextId, now, pc, rjob, rkey, faults, resp, calls, ret>>

vars == <<jobs, nextId, now, pc, rjob, rkey, faults, resp, calls, ret,
          at, cv, temp_dir, output_dir, files, gate>>

\* A response: the endpoint, the status code and the job in the body.
Response(op, code, job) == [op |-> op, code |-> code, job |-> job]

NoResp == Response("none", 0, None)

\* ------------------------------------------------------------------- main
\* main.py:93-103 http_exception_handler: the status the client gets when a
\* handler or a dependency raises HTTPException(status_code).  The handler
\* returns JSONResponse(content=ErrorResponse(...).dict()); the dict holds
\* BaseResponse.timestamp as a datetime (models/api.py:84), which
\* JSONResponse cannot encode, so the handler itself raises TypeError.
\* general_exception_handler (119-132) builds its answer the same way and
\* raises too; what is left is the server's own 500.
http_exception_handler(status_code) == 500

\* -------------------------------------------------------------- models/api
\* (mutant) validate_scenes without its emptiness test
validate_scenes_any(scenes) == TRUE

\* VideoCompositionRequest.validate_scenes: an empty dict is rejected.
validate_scenes(scenes) == Len(scenes) > 0

\* ------------------------------------------------------------ job_service
\* The columns create_job leaves to their defaults (models/database.py).
ColumnDefaults ==
    [ max_retries |-> DefaultMaxRetries,
      webhook_sent |-> FALSE,
      webhook_attempts |-> 0,
      current_step |-> None,
      output_file |-> None,
      output_size |-> None,
      duration |-> None,
      error_message |-> None,
      started_at |-> None,
      completed_at |-> None ]

\* (mutant) create_job that stores the new job as already queued
create_job_queued(api_key, scenes, t) ==
    [ api_key |-> api_key,
      composition_config |-> scenes,
      webhook_url |-> None,
      status |-> "queued",
      progress |-> 0,
      retry_count |-> 0,
      created_at |-> t,
      updated_at |-> t ] @@ ColumnDefaults

\* JobService.create_job: the row it adds.  webhook_url is None in every
\* row: a request that carries one never gets this far (see
\* submit_composition_job).
create_job(api_key, scenes, t) ==
    [ api_key |-> api_key,
      composition_config |-> scenes,
      webhook_url |-> None,
      status |-> "pending",
      progress |-> 0,
      retry_count |-> 0,
      created_at |-> t,
      updated_at |-> t ] @@ ColumnDefaults

\* JobService._to_job_response: the JobResponse built from a row.  It has no
\* api_key and no composition_config field.
to_job_response(id, job) ==
    [ id |-> id,
      status |-> job.status,
      progress |-> job.progress,
      current_step |-> job.current_step,
      output_file |-> job.output_file,
      output_size |-> job.output_size,
      duration |-> job.duration,
      error_message |-> job.error_message,
      retry_count |-> job.retry_count,
      max_retries |-> job.max_retries,
      created_at |-> job.created_at,
      updated_at |-> job.updated_at,
      started_at |-> job.started_at,
      completed_at |-> job.completed_at,
      webhook_url |-> job.webhook_url,
      webhook_sent |-> job.webhook_sent ]

\* (mutant) the select without its api_key condition
Found_by_id(db, job_id, api_key) ==
    job_id \in DOMAIN db

\* The row matched by  select(Job).where(Job.id == job_id, Job.api_key == api_key)
Found(db, job_id, api_key) ==
    job_id \in DOMAIN db /\ db[job_id].api_key = api_key

\* JobService.get_job
get_job(db, job_id, api_key) ==
    IF Found(db, job_id, api_key) THEN Some(to_job_response(job_id, db[job_id])) ELSE None

\* A JobListQuery (models/api.py:350-357): the default page of 50, and the
\* first and second page of one row.  Rows are sorted by created_at, the
\* default sort_by.
JobListQueries ==
    { [ status |-> st, sort_order |-> so, page |-> pg[1], per_page |-> pg[2] ] :
        st \in {None, Some("pending")}, so \in {"asc", "desc"},
        pg \in { <<1, 50>>, <<1, 1>>, <<2, 1>> } }

\* JobService.list_jobs (64-88): the caller's rows, filtered by status when
\* the query names one, ordered by created_at, cut to the page.
list_jobs(db, api_key, query) ==
    LET rows == { j \in DOMAIN db :
                    /\ db[j].api_key = api_key
                    /\ query.status # None => db[j].status = query.status[1] }
        before(i, j) == IF query.sort_order = "asc"
                        THEN db[i].created_at <= db[j].created_at
                        ELSE db[i].created_at >= db[j].created_at
        ordered == [ k \in 1..Cardinality(rows) |->
                        CHOOSE j \in rows : Cardinality({ i \in rows : before(i, j) }) = k ]
        offset == (query.page - 1) * query.per_page
        last == IF Cardinality(rows) < offset + query.per_page
                THEN Cardinality(rows) ELSE offset + query.per_page
    IN [ k \in 1..(IF last > offset THEN last - offset ELSE 0) |->
            to_job_response(ordered[offset + k], db[ordered[offset + k]]) ]

\* JobService.update_job_status, the table after the call.  Any status is
\* written over any stored status; completed_at is (re)written whenever the
\* new status is a finished one.
update_job_status(db, job_id, api_key, status, t) ==
    IF ~Found(db, job_id, api_key) THEN db
    ELSE [db EXCEPT ![job_id] =
            [@ EXCEPT !.status = status,
                      !.updated_at = t,
                      !.completed_at = IF status \in Finished THEN Some(t) ELSE @]]

\* JobService.delete_job, the table after the call.
delete_job(db, job_id, api_key) ==
    IF ~Found(db, job_id, api_key) THEN db
    ELSE [k \in DOMAIN db \ {job_id} |-> db[k]]

\* --------------------------------------------------- services/video_service
\* VideoCompositionService.compose_video, its outcome for a scene list: every
\* scene is resolved in order (get_media_path, download_media_from_url), and
\* a source that cannot be fetched raises; the try/except at 206/316 wraps
\* the cause in  ValueError("Video composition failed: ...").
compose_video(scenes) ==
    IF \E i \in 1..Len(scenes) : scenes[i] = "unreachable"
    THEN [ok |-> FALSE, error |-> "Video composition failed: Failed to download media"]
    ELSE [ok |-> TRUE, error |-> ""]

\* Times are whole numbers of units; n eighths of a second are Ticks(n)
\* units, fine enough that every halving in a run of MaxRenderScenes scenes
\* is exact.
Ticks(n) == n * 2^MaxRenderScenes

Min(a, b) == IF a < b THEN a ELSE b
Max(a, b) == IF a > b THEN a ELSE b

\* models/api.py:43-53
TransitionType ==
    {"fade", "crossfade", "slide_left", "slide_right", "slide_up",
     "slide_down", "zoom_in", "zoom_out", "none"}

\* A clip: its duration, the scenes shown in it with the time each starts,
\* and the effect and window at each boundary between two of them.
clip_of(scene, dur) == [dur |-> dur, starts |-> << <<scene, 0>> >>, joins |-> << >>]

\* The clip showing a, and b from time start on, with the given effect at
\* the boundary.
Joined(a, b, effect, window, start, dur) ==
    [ dur |-> dur,
      starts |-> a.starts \o [k \in 1..Len(b.starts) |->
                                <<b.starts[k][1], b.starts[k][2] + start>>],
      joins |-> a.joins \o << <<effect, window>> >> \o b.joins ]

\* moviepy concatenate_videoclips: the clips one after the other.
RECURSIVE concatenate_videoclips(_)
concatenate_videoclips(clips) ==
    IF Len(clips) = 1 THEN clips[1]
    ELSE LET a == concatenate_videoclips(SubSeq(clips, 1, Len(clips) - 1))
             b == clips[Len(clips)]
         IN Joined(a, b, "none", 0, a.dur, a.dur + b.dur)

\* (mutant) apply_transition whose crossfade also halves a window equal to
\* the shorter clip
apply_transition_ge(clip1, clip2, transition, duration) ==
    IF transition = "none" THEN concatenate_videoclips(<<clip1, clip2>>)
    ELSE IF transition = "fade"
    THEN Joined(clip1, clip2, "fade", duration, clip1.dur, clip1.dur + clip2.dur)
    ELSE IF transition = "crossfade"
    THEN LET m == Min(clip1.dur, clip2.dur)
             d == IF duration >= m THEN m \div 2 ELSE duration
         IN Joined(clip1, clip2, "crossfade", d, clip1.dur - d,
                   Max(clip1.dur, clip1.dur - d + clip2.dur))
    ELSE IF transition = "slide_left"
    THEN Joined(clip1, clip2, "slide_left", duration, clip1.dur, clip1.dur + duration)
    ELSE concatenate_videoclips(<<clip1, clip2>>)

\* (mutant) apply_transition that slides for every slide_* value
apply_transition_slides(clip1, clip2, transition, duration) ==
    IF transition = "none" THEN concatenate_videoclips(<<clip1, clip2>>)
    ELSE IF transition = "fade"
    THEN Joined(clip1, clip2, "fade", duration, clip1.dur, clip1.dur + clip2.dur)
    ELSE IF transition = "crossfade"
    THEN LET m == Min(clip1.dur, clip2.dur)
             d == IF duration > m THEN m \div 2 ELSE duration
         IN Joined(clip1, clip2, "crossfade", d, clip1.dur - d,
                   Max(clip1.dur, clip1.dur - d + clip2.dur))
    ELSE IF transition \in {"slide_left", "slide_right", "slide_up", "slide_down"}
    THEN Joined(clip1, clip2, "slide_left", duration, clip1.dur, clip1.dur + duration)
    ELSE concatenate_videoclips(<<clip1, clip2>>)

\* (mutant) apply_transition whose slide_left shows all of clip2
apply_transition_uncut(clip1, clip2, transition, duration) ==
    IF transition = "none" THEN concatenate_videoclips(<<clip1, clip2>>)
    ELSE IF transition = "fade"
    THEN Joined(clip1, clip2, "fade", duration, clip1.dur, clip1.dur + clip2.dur)
    ELSE IF transition = "crossfade"
    THEN LET m == Min(clip1.dur, clip2.dur)
             d == IF duration > m THEN m \div 2 ELSE duration
         IN Joined(clip1, clip2, "crossfade", d, clip1.dur - d,
                   Max(clip1.dur, clip1.dur - d + clip2.dur))
    ELSE IF transition = "slide_left"
    THEN Joined(clip1, clip2, "slide_left", duration, clip1.dur, clip1.dur + clip2.dur)
    ELSE concatenate_videoclips(<<clip1, clip2>>)

\* VideoCompositionService.apply_transition
\*   none        153-154  plain concatenation
\*   fade        156-160  fade out, fade in, concatenated: no overlap
\*   crossfade   162-170  a window longer than the shorter clip is replaced
\*                        by half the shorter clip; clip2 starts that much
\*                        before clip1 ends; the composite ends with the
\*                        later of the two
\*   slide_left  172-176  clip2 starts when clip1 ends and is cut to the
\*                        window; duration set to clip1.duration + window
\*   otherwise   179-181  plain concatenation
apply_transition(clip1, clip2, transition, duration) ==
    IF transition = "none" THEN concatenate_videoclips(<<clip1, clip2>>)
    ELSE IF transition = "fade"
    THEN Joined(clip1, clip2, "fade", duration, clip1.dur, clip1.dur + clip2.dur)
    ELSE IF transition = "crossfade"
    THEN LET m == Min(clip1.dur, clip2.dur)
             d == IF duration > m THEN m \div 2 ELSE duration
         IN Joined(clip1, clip2, "crossfade", d, clip1.dur - d,
                   Max(clip1.dur, clip1.dur - d + clip2.dur))
    ELSE IF transition = "slide_left"
    THEN Joined(clip1, clip2, "slide_left", duration, clip1.dur, clip1.dur + duration)
    ELSE concatenate_videoclips(<<clip1, clip2>>)

\* Job.can_retry
can_retry(job) ==
    job.status = "failed" /\ job.retry_count < job.max_retries

\* ------------------------------------------------------------------ state
\* The arguments of a request that holds none: not yet past its check, or
\* answered.
NoArg == [job_id |-> 1, api_key |-> ""]

\* A compose_video invocation that has not been made.
IdleRun ==
    [ pc |-> "idle", scenes |-> << >>, i |-> 0, clips |-> << >>,
      final_clips |-> << >>, final_video |-> None, reported |-> << >>,
      open |-> {}, temps |-> {}, output |-> None,
      media_path |-> None, cause |-> None, error |-> None ]

\* The render pipeline at rest: no call in flight, both directories empty
\* (VideoCompositionService.__init__ creates video_composition/ if missing).
PipelineIdle ==
    /\ at = None
    /\ cv = [r \in Runs |-> IdleRun]
    /\ temp_dir = << >>
    /\ output_dir = {}

\* A check_rate_limit invocation that has not been made.
IdleCheck ==
    [ pc |-> "idle", api_key |-> "", window_start |-> 0, current_count |-> 0,
      is_allowed |-> FALSE, requests_remaining |-> 0, redis_failed |-> FALSE ]

\* Redis after start-up: no counter key exists (a missing key reads as 0,
\* auth.py:42), the clock is in the first window, no check is in flight.
GateIdle ==
    [ count |-> [k \in Keys, w \in Windows |-> 0],
      window |-> 1,
      check |-> [c \in Checks |-> IdleCheck] ]

\* The job side after start-up: an empty jobs table, no request in flight.
JobsInit ==
    /\ jobs = << >>
    /\ nextId = 1
    /\ now = 1
    /\ pc = [r \in Reqs |-> "start"]
    /\ rjob = [r \in Reqs |-> NoArg.job_id]
    /\ rkey = [r \in Reqs |-> NoArg.api_key]
    /\ faults = 0
    /\ resp = NoResp
    /\ calls = 0
    /\ ret = None
    /\ files = << >>
    /\ gate = GateIdle

Init == JobsInit /\ PipelineIdle

\* A database call either goes through or raises; at most MaxDbFaults raise.
DbOutcomes == {TRUE} \cup (IF faults < MaxDbFaults THEN {FALSE} ELSE {})

\* The clock moves on with every write that stamps a row.
Clock(db) == IF db # jobs THEN now + 1 ELSE now

\* ------------------------------------------------- api/endpoints/jobs.py
\* POST /compose.  webhook: the request carries a webhook_url.  ok: the
\* commit in create_job goes through.
submit_composition_job(api_key, scenes, webhook, ok) ==
    /\ UNCHANGED <<pipeline, files, gate>>
    /\ UNCHANGED <<pc, rjob, rkey, calls, ret>>
    /\ IF ~validate_scenes(scenes)
       THEN \* the request model is rejected before the handler runs
            /\ resp' = Response("compose", 422, None)
            /\ UNCHANGED <<jobs, nextId, now, faults>>
       ELSE IF Len(scenes) = 0
       THEN \* jobs.py:62  "At least one scene is required"
            /\ resp' = Response("compose", http_exception_handler(400), None)
            /\ UNCHANGED <<jobs, nextId, now, faults>>
       ELSE IF webhook
       THEN \* job_service.py:34  json.dumps(composition_config) raises
            \* TypeError: composition_request.dict() holds the webhook_url as
            \* a Url object, which json cannot encode.  Nothing is added.
            /\ resp' = Response("compose", 500, None)
            /\ UNCHANGED <<jobs, nextId, now, faults>>
       ELSE IF ~ok
       THEN \* the commit raises: no handler, the session is rolled back
            /\ resp' = Response("compose", 500, None)
            /\ faults' = faults + 1
            /\ UNCHANGED <<jobs, nextId, now>>
       ELSE /\ nextId <= MaxJobs
            /\ jobs' = jobs @@ (nextId :> create_job(api_key, scenes, now))
            /\ nextId' = nextId + 1
            /\ now' = now + 1
            /\ resp' = Response("compose", 200,
                                Some(to_job_response(nextId, jobs'[nextId])))
            /\ UNCHANGED faults

\* DELETE /jobs/{job_id}
delete_job_endpoint(api_key, job_id, ok) ==
    /\ UNCHANGED <<pipeline, files, gate>>
    /\ UNCHANGED <<nextId, now, pc, rjob, rkey, calls, ret>>
    /\ IF ~ok
       THEN \* job_service.py:166  the exception is logged, False returned
            /\ faults' = faults + 1
            /\ resp' = Response("delete", http_exception_handler(404), None)
            /\ UNCHANGED jobs
       ELSE /\ jobs' = delete_job(jobs, job_id, api_key)
            /\ resp' = Response("delete",
                                IF Found(jobs, job_id, api_key)
                                THEN 200 ELSE http_exception_handler(404), None)
            /\ UNCHANGED faults

\* POST /jobs/{job_id}/process, jobs.py:216-228: read the job, refuse it
\* unless it is pending.  Requests are taken in the order of their numbers.
process_job_check(r, job_id, api_key, ok) ==
    /\ UNCHANGED <<pipeline, files, gate>>
    /\ pc[r] = "start"
    /\ \A q \in Reqs : q < r => pc[q] # "start"
    /\ UNCHANGED <<jobs, nextId, now, calls, ret>>
    /\ IF ~ok
       THEN \* get_job raises outside the try: the request ends in a 500
            /\ faults' = faults + 1
            /\ pc' = [pc EXCEPT ![r] = "done"]
            /\ resp' = Response("process", 500, None)
            /\ UNCHANGED <<rjob, rkey>>
       ELSE LET job == get_job(jobs, job_id, api_key) IN
            /\ UNCHANGED faults
            /\ IF job = None
               THEN /\ pc' = [pc EXCEPT ![r] = "done"]
                    /\ resp' = Response("process", http_exception_handler(404), None)
                    /\ UNCHANGED <<rjob, rkey>>
               ELSE IF job[1].status # "pending"
               THEN /\ pc' = [pc EXCEPT ![r] = "done"]
                    /\ resp' = Response("process", http_exception_handler(400), None)
                    /\ UNCHANGED <<rjob, rkey>>
               ELSE /\ pc' = [pc EXCEPT ![r] = "begin"]
                    /\ rjob' = [rjob EXCEPT ![r] = job_id]
                    /\ rkey' = [rkey EXCEPT ![r] = api_key]
                    /\ resp' = NoResp

\* jobs.py:230-236: the status is set to processing, its result ignored.
\* Then  job.composition_config  is read from the JobResponse that get_job
\* returned; JobResponse has no such field (models/api.py:261-292,
\* job_service.py:92-115), so the read raises AttributeError inside the try
\* and control passes to the except clause.  compose_video is not reached.
process_job_begin(r, ok) ==
    /\ UNCHANGED <<pipeline, files, gate>>
    /\ pc[r] = "begin"
    /\ jobs' = IF ok THEN update_job_status(jobs, rjob[r], rkey[r], "processing", now)
                     ELSE jobs
    /\ now' = Clock(jobs')
    /\ faults' = IF ok THEN faults ELSE faults + 1
    /\ pc' = [pc EXCEPT ![r] = "except"]
    /\ resp' = NoResp
    /\ UNCHANGED <<nextId, rjob, rkey, calls, ret>>

\* (mutant) an except clause that puts the job back in the queue
process_job_requeue(r, ok) ==
    /\ UNCHANGED <<pipeline, files, gate>>
    /\ pc[r] = "except"
    /\ jobs' = IF ok THEN update_job_status(jobs, rjob[r], rkey[r], "pending", now)
                     ELSE jobs
    /\ now' = Clock(jobs')
    /\ faults' = IF ok THEN faults ELSE faults + 1
    /\ pc' = [pc EXCEPT ![r] = "done"]
    /\ resp' = Response("process", http_exception_handler(500), None)
    /\ rjob' = [rjob EXCEPT ![r] = NoArg.job_id]
    /\ rkey' = [rkey EXCEPT ![r] = NoArg.api_key]
    /\ UNCHANGED <<nextId, calls, ret>>

\* jobs.py:264-272: the status is set to failed, its result ignored, and
\* the request is answered 500.
process_job_except(r, ok) ==
    /\ UNCHANGED <<pipeline, files, gate>>
    /\ pc[r] = "except"
    /\ jobs' = IF ok THEN update_job_status(jobs, rjob[r], rkey[r], "failed", now)
                     ELSE jobs
    /\ now' = Clock(jobs')
    /\ faults' = IF ok THEN faults ELSE faults + 1
    /\ pc' = [pc EXCEPT ![r] = "done"]
    /\ resp' = Response("process", http_exception_handler(500), None)
    /\ rjob' = [rjob EXCEPT ![r] = NoArg.job_id]
    /\ rkey' = [rkey EXCEPT ![r] = NoArg.api_key]
    /\ UNCHANGED <<nextId, calls, ret>>

Submit == \E k \in Keys, sc \in SceneLists, wh \in BOOLEAN, ok \in DbOutcomes :
              submit_composition_job(k, sc, wh, ok)
Delete == \E k \in Keys, j \in JobIds, ok \in DbOutcomes : delete_job_endpoint(k, j, ok)
Check == \E r \in Reqs, j \in JobIds, k \in Keys, ok \in DbOutcomes :
              process_job_check(r, j, k, ok)
Begin == \E r \in Reqs, ok \in DbOutcomes : process_job_begin(r, ok)
Except == \E r \in Reqs, ok \in DbOutcomes : process_job_except(r, ok)

Next == Submit \/ Delete \/ Check \/ Begin \/ Except

Spec == Init /\ [][Next]_vars

\* ------------------------------------------------------ services/auth.py
\* The Authorization header of a request: none, or a scheme prefix followed
\* by a key.  "k1" and "k2" are in settings.api_keys, "bad" is not.
Headers ==
    {None} \cup { Some(<<scheme, key>>) :
                    scheme \in {"Bearer ", "Basic "}, key \in {"", "bad"} \cup Keys }

\* get_api_key: the key of the request, or None where it raises
\* HTTPException(401): no header (137-143), a header that does not start
\* with "Bearer " (145-150), nothing after the prefix (152-159), a key that
\* is not in settings.api_keys (162-168).
get_api_key(authorization) ==
    IF authorization = None THEN None
    ELSE IF authorization[1][1] # "Bearer " THEN None
    ELSE IF authorization[1][2] = "" THEN None
    ELSE IF authorization[1][2] \notin Keys THEN None
    ELSE Some(authorization[1][2])

\* The dependency raised: the handler does not run, nothing is touched.
Unauthorized(op) ==
    /\ resp' = Response(op, http_exception_handler(401), None)
    /\ UNCHANGED <<jobs, nextId, now, pc, rjob, rkey, faults, calls, ret, pipeline, files, gate>>

\* POST /upload with a supported file (files.py:17-34, FileService.upload_file):
\* the file is saved and its record added; if the commit raises, the file is
\* unlinked and HTTPException(500) raised (file_service.py:274-283).
upload_file(api_key, ok) ==
    /\ UNCHANGED <<jobs, nextId, now, pc, rjob, rkey, calls, ret, pipeline, gate>>
    /\ IF ~ok
       THEN /\ faults' = faults + 1
            /\ resp' = Response("upload", http_exception_handler(500), None)
            /\ UNCHANGED files
       ELSE /\ Len(files) < MaxFiles
            /\ files' = Append(files, api_key)
            /\ resp' = Response("upload", 200, None)
            /\ UNCHANGED faults

\* GET /jobs/{job_id} (jobs.py:103-120)
get_job_status(api_key, job_id, ok) ==
    /\ UNCHANGED <<jobs, nextId, now, pc, rjob, rkey, calls, ret, pipeline, files, gate>>
    /\ IF ~ok
       THEN /\ faults' = faults + 1
            /\ resp' = Response("job", 500, None)
       ELSE /\ resp' = IF get_job(jobs, job_id, api_key) = None
                       THEN Response("job", http_exception_handler(404), None)
                       ELSE Response("job", 200, get_job(jobs, job_id, api_key))
            /\ UNCHANGED faults

\* The requests as they arrive, with their Authorization header: get_api_key
\* is the first dependency of every endpoint.
compose_request(authorization, scenes, webhook, ok) ==
    IF get_api_key(authorization) = None THEN Unauthorized("compose")
    ELSE submit_composition_job(get_api_key(authorization)[1], scenes, webhook, ok)

upload_request(authorization, ok) ==
    IF get_api_key(authorization) = None THEN Unauthorized("upload")
    ELSE upload_file(get_api_key(authorization)[1], ok)

job_request(authorization, job_id, ok) ==
    IF get_api_key(authorization) = None THEN Unauthorized("job")
    ELSE get_job_status(get_api_key(authorization)[1], job_id, ok)

delete_request(authorization, job_id, ok) ==
    IF get_api_key(authorization) = None THEN Unauthorized("delete")
    ELSE delete_job_endpoint(get_api_key(authorization)[1], job_id, ok)

ComposeRequest == \E h \in Headers, sc \in SceneLists, wh \in BOOLEAN, ok \in DbOutcomes :
                      compose_request(h, sc, wh, ok)
UploadRequest == \E h \in Headers, ok \in DbOutcomes : upload_request(h, ok)
JobRequest == \E h \in Headers, j \in JobIds, ok \in DbOutcomes : job_request(h, j, ok)
DeleteRequest == \E h \in Headers, j \in JobIds, ok \in DbOutcomes : delete_request(h, j, ok)

NextAuth == ComposeRequest \/ UploadRequest \/ JobRequest \/ DeleteRequest

SpecAuth == Init /\ [][NextAuth]_vars

\* ------------------------------------------- services/auth.py: rate limit
\* check_rate_limit (174-201) is a dependency of POST /compose and POST
\* /upload: it runs AuthService.check_rate_limit (29-75) for the request's
\* key before the handler.  The method awaits Redis twice, GET at 41 and the
\* INCR/EXPIRE pipeline at 61; other requests run between the two.

\* The check ends: allowed or not, with the requests_remaining it returns.
Answered(check, is_allowed, requests_remaining, redis_failed) ==
    [check EXCEPT !.pc = "done", !.is_allowed = is_allowed,
                  !.requests_remaining = requests_remaining,
                  !.redis_failed = redis_failed]

\* 66-75: Redis raised; the request is allowed, with the whole limit as
\* requests_remaining.
check_rate_limit_except(check) == Answered(check, TRUE, RateLimitRequests, TRUE)

\* 36-55: the window is computed, the counter read (a missing key is 0),
\* requests_remaining set to max(0, limit - count), and a count at the limit
\* is refused.  up: Redis answers.
check_rate_limit_get(c, api_key, up) ==
    /\ gate.check[c].pc = "idle"
    /\ \A q \in Checks : q < c => gate.check[q].pc # "idle"
    /\ LET started == [gate.check[c] EXCEPT !.api_key = api_key,
                                            !.window_start = gate.window]
           current_count == gate.count[api_key, gate.window]
           requests_remaining == Max(0, RateLimitRequests - current_count)
       IN gate' = [gate EXCEPT !.check[c] =
                    IF ~up THEN check_rate_limit_except(started)
                    ELSE IF current_count >= RateLimitRequests
                    THEN Answered(started, FALSE, requests_remaining, FALSE)
                    ELSE [started EXCEPT !.pc = "incr",
                                         !.current_count = current_count,
                                         !.requests_remaining = requests_remaining]]
    /\ UNCHANGED <<lifecycle, files, pipeline>>

\* 57-64: the counter of the window read at 37 is incremented, one is taken
\* off requests_remaining, and the request is allowed.
check_rate_limit_incr(c, up) ==
    /\ gate.check[c].pc = "incr"
    /\ LET check == gate.check[c] IN
       gate' = IF ~up THEN [gate EXCEPT !.check[c] = check_rate_limit_except(check)]
               ELSE [gate EXCEPT !.count[check.api_key, check.window_start] = @ + 1,
                                 !.check[c] = Answered(check, TRUE,
                                                       check.requests_remaining - 1, FALSE)]
    /\ UNCHANGED <<lifecycle, files, pipeline>>

\* time.time() passes into the next window.
next_window ==
    /\ gate.window < MaxWindows
    /\ gate' = [gate EXCEPT !.window = @ + 1]
    /\ UNCHANGED <<lifecycle, files, pipeline>>

RateGet == \E c \in Checks, k \in Keys, up \in BOOLEAN : check_rate_limit_get(c, k, up)
RateIncr == \E c \in Checks, up \in BOOLEAN : check_rate_limit_incr(c, up)

NextGate == RateGet \/ RateIncr \/ next_window

SpecGate == Init /\ [][NextGate]_vars

\* ------------------------------------------- JobService called directly
\* JobService is the coordinator a worker or scheduler drives.  No endpoint
\* passes a webhook URL that create_job can store (see
\* submit_composition_job) and none cancels a job; both are done by calling
\* the service.  At most MaxCalls such calls are made.

\* JobService.create_job called with a JSON-serialisable config and a
\* webhook URL string (job_service.py:36 stores it).
create_job_call(api_key, scenes, webhook_url, ok) ==
    /\ UNCHANGED <<pipeline, files, gate>>
    /\ calls < MaxCalls
    /\ calls' = calls + 1
    /\ validate_scenes(scenes)
    /\ resp' = NoResp
    /\ UNCHANGED <<pc, rjob, rkey, ret>>
    /\ IF ~ok
       THEN /\ faults' = faults + 1
            /\ UNCHANGED <<jobs, nextId, now>>
       ELSE /\ nextId <= MaxJobs
            /\ jobs' = jobs @@ (nextId :>
                        [create_job(api_key, scenes, now) EXCEPT !.webhook_url = webhook_url])
            /\ nextId' = nextId + 1
            /\ now' = now + 1
            /\ UNCHANGED faults

\* cancel(job_id, owner): the one way the code has to cancel a job,
\* JobService.update_job_status(db, job_id, owner, JobStatus.CANCELLED).
\* It returns True when the row exists and the commit goes through
\* (job_service.py:142), False otherwise (128, 146).
cancel(job_id, owner, ok) ==
    /\ UNCHANGED <<pipeline, files, gate>>
    /\ calls < MaxCalls
    /\ calls' = calls + 1
    /\ jobs' = IF ok THEN update_job_status(jobs, job_id, owner, "cancelled", now)
                     ELSE jobs
    /\ now' = Clock(jobs')
    /\ faults' = IF ok THEN faults ELSE faults + 1
    /\ ret' = Some(ok /\ Found(jobs, job_id, owner))
    /\ resp' = NoResp
    /\ UNCHANGED <<nextId, pc, rjob, rkey>>

\* A direct call that has ended: the method, the api_key and the job id or
\* query it was called with, whether it raised, and the value it returned
\* if it did not.
Returned(call, api_key, arg, value) ==
    Some([call |-> call, key |-> api_key, on |-> arg, raised |-> FALSE, value |-> value])
RaisedBy(call, api_key, arg) ==
    Some([call |-> call, key |-> api_key, on |-> arg, raised |-> TRUE, value |-> None])

\* JobService.get_job called: the JobResponse or None comes back; a
\* database exception is not caught (52-62).
get_job_call(job_id, api_key, ok) ==
    /\ UNCHANGED <<pipeline, files, gate>>
    /\ calls < MaxCalls
    /\ calls' = calls + 1
    /\ ret' = IF ok THEN Returned("get_job", api_key, job_id, get_job(jobs, job_id, api_key))
                    ELSE RaisedBy("get_job", api_key, job_id)
    /\ faults' = IF ok THEN faults ELSE faults + 1
    /\ resp' = NoResp
    /\ UNCHANGED <<jobs, nextId, now, pc, rjob, rkey>>

\* JobService.list_jobs called.
list_jobs_call(api_key, query, ok) ==
    /\ UNCHANGED <<pipeline, files, gate>>
    /\ calls < MaxCalls
    /\ calls' = calls + 1
    /\ ret' = IF ok THEN Returned("list_jobs", api_key, query, list_jobs(jobs, api_key, query))
                    ELSE RaisedBy("list_jobs", api_key, query)
    /\ faults' = IF ok THEN faults ELSE faults + 1
    /\ resp' = NoResp
    /\ UNCHANGED <<jobs, nextId, now, pc, rjob, rkey>>

\* JobService.update_job_status called with any JobStatus: True when the row
\* exists and the commit goes through (142), False otherwise (131, 146).
update_job_status_call(job_id, api_key, status, ok) ==
    /\ UNCHANGED <<pipeline, files, gate>>
    /\ calls < MaxCalls
    /\ calls' = calls + 1
    /\ jobs' = IF ok THEN update_job_status(jobs, job_id, api_key, status, now)
                     ELSE jobs
    /\ now' = Clock(jobs')
    /\ faults' = IF ok THEN faults ELSE faults + 1
    /\ ret' = Returned("update_job_status", api_key, job_id,
                       ok /\ Found(jobs, job_id, api_key))
    /\ resp' = NoResp
    /\ UNCHANGED <<nextId, pc, rjob, rkey>>

\* JobService.delete_job called: True when the row existed and is gone
\* (164), False otherwise (160, 169).
delete_job_call(job_id, api_key, ok) ==
    /\ UNCHANGED <<pipeline, files, gate>>
    /\ calls < MaxCalls
    /\ calls' = calls + 1
    /\ jobs' = IF ok THEN delete_job(jobs, job_id, api_key) ELSE jobs
    /\ faults' = IF ok THEN faults ELSE faults + 1
    /\ ret' = Returned("delete_job", api_key, job_id, ok /\ Found(jobs, job_id, api_key))
    /\ resp' = NoResp
    /\ UNCHANGED <<nextId, now, pc, rjob, rkey>>

CreateJob == \E k \in Keys, sc \in SceneLists, wh \in WebhookUrls, ok \in DbOutcomes :
                 create_job_call(k, sc, wh, ok)
Cancel == \E j \in JobIds, k \in Keys, ok \in DbOutcomes : cancel(j, k, ok)

NextService == CreateJob \/ Cancel \/ Check \/ Begin \/ Except

SpecService == Init /\ [][NextService]_vars

\* The statuses update_job_status is called with.
JobStatus == {"pending", "queued", "processing", "completed", "failed", "cancelled"}

GetJob == \E j \in JobIds, k \in Keys, ok \in DbOutcomes : get_job_call(j, k, ok)
ListJobs == \E k \in Keys, q \in JobListQueries, ok \in DbOutcomes : list_jobs_call(k, q, ok)
UpdateStatus == \E j \in JobIds, k \in Keys, st \in JobStatus, ok \in DbOutcomes :
                    update_job_status_call(j, k, st, ok)
DeleteJob == \E j \in JobIds, k \in Keys, ok \in DbOutcomes : delete_job_call(j, k, ok)

\* The four owner-scoped methods called by either key, on a table that
\* POST /compose fills.
NextOwner == Submit \/ GetJob \/ ListJobs \/ UpdateStatus \/ DeleteJob

SpecOwner == Init /\ [][NextOwner]_vars

\* --------------------------------------- video_service: apply_transition
\* The calls of apply_transition: two clips of 1..MaxDur eighths of a
\* second, any transition, a window of 1..MaxDur eighths.
TransitionCalls ==
    { [ clip1 |-> clip_of(1, Ticks(a)), clip2 |-> clip_of(2, Ticks(b)),
        transition |-> t, duration |-> Ticks(d), result |-> None ] :
      a \in 1..MaxDur, b \in 1..MaxDur, t \in TransitionType, d \in 1..MaxDur }

InitTransition ==
    /\ JobsInit
    /\ at \in { Some(c) : c \in TransitionCalls }
    /\ cv = [r \in Runs |-> IdleRun]
    /\ temp_dir = << >>
    /\ output_dir = {}

\* The call returns.
apply_transition_call ==
    /\ at # None
    /\ at[1].result = None
    /\ at' = Some([at[1] EXCEPT !.result =
                Some(apply_transition(at[1].clip1, at[1].clip2,
                                      at[1].transition, at[1].duration))])
    /\ UNCHANGED <<lifecycle, files, gate, cv, temp_dir, output_dir>>

NextTransition == apply_transition_call

SpecTransition == InitTransition /\ [][NextTransition]_vars

\* ------------------------------------------ video_service: compose_video
\* A scene's source: URLs that answer 200 with media, and one that does not.
Urls == {"u1", "u2"}
RenderSources == Urls \cup {"down"}

\* Further sources: a URL whose file is both a readable image and a readable
\* video, one whose file is neither, one that answers 204 No Content, and two
\* file ids, "f1" of an uploaded file and "f0" of none.
MoreUrls == {"gif", "junk", "u204"}
FileIds == {"f1", "f0"}
StoredFiles == {"f1"}
Sources == RenderSources \cup MoreUrls \cup FileIds

\* The status a URL answers with; 0: the transfer fails.
HttpStatus(url) ==
    CASE url \in Urls \cup {"gif", "junk"} -> 200
      [] url = "u204" -> 204
      [] OTHER -> 0

\* hashlib.md5(url.encode()).hexdigest()[:8]: a digest fixed by the URL
\* (distinct here for distinct URLs).
url_hash(url) ==
    CASE url = "u1" -> 1 [] url = "u2" -> 2 [] url = "gif" -> 3
      [] url = "junk" -> 4 [] url = "u204" -> 5 [] OTHER -> 6

\* video_service.py:62-63  temp_dir / f"download_{url_hash}{extension}"
download_path(url) == <<"download_", url_hash(url)>>

\* video_service.py:262-263  output_dir / f"composition_{os.urandom(6).hex()}..."
\* 48 random bits: a name no other invocation draws.
output_path(r) == <<"composition_", r>>

\* A scene held for a quarter of a second, shorter than the default window,
\* and one held for a second.
SceneDurations == {Ticks(DefaultTransitionDuration \div 2), Ticks(2 * DefaultTransitionDuration)}

\* models/api.py:36-40 MediaType, and a value outside it
MediaType == {"image", "video", "image/video"}
MediaKinds == MediaType \cup {"audio"}

\* models/api.py:122-127 SceneData
Scenes(sources, media_types, durations, transitions) ==
    [source : sources, media_type : media_types, duration : durations,
     transition : transitions]

\* An exception: its type and its message, in parts.
Exc(type, message) == [type |-> type, message |-> message]

\* download_media_from_url (49-73): a status other than 200 raises
\* ValueError inside the try (54-55), a failed transfer raises there too, and
\* the except clause of 72-73 raises ValueError("Failed to download media
\* from {url}: ...") for both; otherwise the body is saved under
\* download_path(url), which is returned.
download_media_from_url(url) ==
    IF HttpStatus(url) # 200
    THEN [ok |-> FALSE,
          exc |-> Exc("ValueError", <<"Failed to download media from", url>>)]
    ELSE [ok |-> TRUE, path |-> download_path(url)]

\* is_url (75-81): the source has a scheme and a host.
is_url(source) == source \notin FileIds

\* get_media_path (83-93): a URL is downloaded; anything else comes back as
\* Path(source), the file store is not asked (92-93).
get_media_path(source) ==
    IF is_url(source) THEN download_media_from_url(source)
    ELSE [ok |-> TRUE, path |-> <<source>>]

\* What the decoders find at a path: whether PIL reads it as an image,
\* whether ffmpeg reads it as a video, and how long that video is.  "u1" is
\* a picture, "u2" a half-second video, "gif" both; Path(file id) names no
\* file at all.
FileAt(path) ==
    CASE path = download_path("u1") -> [image |-> TRUE, video |-> FALSE, duration |-> 0]
      [] path = download_path("u2")
            -> [image |-> FALSE, video |-> TRUE, duration |-> Ticks(DefaultTransitionDuration)]
      [] path = download_path("gif")
            -> [image |-> TRUE, video |-> TRUE, duration |-> Ticks(DefaultTransitionDuration)]
      [] OTHER -> [image |-> FALSE, video |-> FALSE, duration |-> 0]

\* (mutant) create_clip_from_scene that falls back to the video decode for
\* kind image too
create_clip_from_scene_fallback(scene_name, scene_data, media_path) ==
    LET f == FileAt(media_path)
        image == [ok |-> TRUE, decoder |-> "image",
                  clip |-> clip_of(scene_name, scene_data.duration)]
        video == [ok |-> TRUE, decoder |-> "video",
                  clip |-> clip_of(scene_name, Min(scene_data.duration, f.duration))]
        failed(cause) ==
            [ok |-> FALSE,
             exc |-> Exc("ValueError", <<"Failed to create clip from", scene_name>> \o cause)]
    IN IF scene_data.media_type \in {"image", "image/video"}
       THEN IF f.image THEN image
            ELSE IF f.video THEN video
            ELSE failed(<<"cannot read video">>)
       ELSE IF scene_data.media_type = "video"
       THEN IF f.video THEN video ELSE failed(<<"cannot read video">>)
       ELSE failed(<<"Unsupported media type", scene_data.media_type>>)

\* create_clip_from_scene, 105-143, on the path get_media_path returned.
\*   image, image/video  106-116  Image.open/verify, then an ImageClip held
\*                                for the scene's duration
\*                       118-127  the image cannot be read: image/video goes
\*                                on to the video decode, image re-raises
\*   video               129-135  VideoFileClip cut to
\*                                min(scene duration, clip duration)
\*   otherwise           137-138  ValueError("Unsupported media type")
\*   142-143  every exception leaves as ValueError("Failed to create clip
\*            from {scene_name}: ...")
create_clip_from_scene(scene_name, scene_data, media_path) ==
    LET f == FileAt(media_path)
        image == [ok |-> TRUE, decoder |-> "image",
                  clip |-> clip_of(scene_name, scene_data.duration)]
        video == [ok |-> TRUE, decoder |-> "video",
                  clip |-> clip_of(scene_name, Min(scene_data.duration, f.duration))]
        failed(cause) ==
            [ok |-> FALSE,
             exc |-> Exc("ValueError", <<"Failed to create clip from", scene_name>> \o cause)]
    IN IF scene_data.media_type \in {"image", "image/video"}
       THEN IF f.image THEN image
            ELSE IF scene_data.media_type = "image/video"
            THEN IF f.video THEN video ELSE failed(<<"cannot read video">>)
            ELSE failed(<<"cannot read image">>)
       ELSE IF scene_data.media_type = "video"
       THEN IF f.video THEN video ELSE failed(<<"cannot read video">>)
       ELSE failed(<<"Unsupported media type", scene_data.media_type>>)

\* (mutant) an except clause that lets the exception through as it is
compose_video_raise_bare(e) == e

\* compose_video, 316-317: whatever was raised in the try leaves as
\* ValueError("Video composition failed: {str(e)}").
compose_video_raise(e) ==
    Exc("ValueError", <<"Video composition failed">> \o e.message)

\* The invocation ends by raising: e is what the try block raised.
Raised(c, e) ==
    [c EXCEPT !.pc = "raised", !.cause = Some(e), !.error = Some(compose_video_raise(e))]

\* compose_video has been called with these scenes: dict items in insertion
\* order (video_service.py:215).
Started(scenes) == [IdleRun EXCEPT !.pc = "cb10", !.scenes = scenes]

\* await progress_callback(step, progress).  Values are kept as
\* progress * len(scene_items), so that 10 + (i / len(scene_items)) * 50 is
\* a whole number.
Report(c, progress_times_len, next) ==
    [c EXCEPT !.reported = Append(@, progress_times_len), !.pc = next]

\* (mutant) the loop of 231-242 joining each clip with the transition of the
\* scene before it
RECURSIVE fold_clips_forward(_, _, _)
fold_clips_forward(clips, i, final_clips) ==
    IF i > Len(clips) THEN final_clips
    ELSE IF i = 1 THEN fold_clips_forward(clips, 2, Append(final_clips, clips[1].clip))
    ELSE IF clips[i - 1].transition # "none"
    THEN fold_clips_forward(clips, i + 1,
            [final_clips EXCEPT ![Len(final_clips)] =
                apply_transition(@, clips[i].clip, clips[i - 1].transition,
                                 Ticks(DefaultTransitionDuration))])
    ELSE fold_clips_forward(clips, i + 1, Append(final_clips, clips[i].clip))

\* video_service.py:231-242: final_clips after the clips from i on are taken.
\* The first clip is appended; a later clip whose transition is not none is
\* joined onto final_clips[-1], which it replaces; one whose transition is
\* none is appended.
RECURSIVE fold_clips(_, _, _)
fold_clips(clips, i, final_clips) ==
    IF i > Len(clips) THEN final_clips
    ELSE IF i = 1 THEN fold_clips(clips, 2, Append(final_clips, clips[1].clip))
    ELSE IF clips[i].transition # "none"
    THEN fold_clips(clips, i + 1,
            [final_clips EXCEPT ![Len(final_clips)] =
                apply_transition(@, clips[i].clip, clips[i].transition,
                                 Ticks(DefaultTransitionDuration))])
    ELSE fold_clips(clips, i + 1, Append(final_clips, clips[i].clip))

\* 210-211
compose_video_cb10(r) ==
    /\ cv[r].pc = "cb10"
    /\ cv' = [cv EXCEPT ![r] = Report(@, 10 * Len(@.scenes), "cb_scene")]
    /\ UNCHANGED <<lifecycle, files, gate, at, temp_dir, output_dir>>

\* (mutant) the scene's progress reported with the scene counted as done
compose_video_cb_scene_done(r) ==
    /\ cv[r].pc = "cb_scene"
    /\ cv' = [cv EXCEPT ![r] = Report(@, 10 * Len(@.scenes) + (@.i + 1) * 50, "resolve")]
    /\ UNCHANGED <<lifecycle, files, gate, at, temp_dir, output_dir>>

\* 218-220: before scene i (from 0) is worked on
compose_video_cb_scene(r) ==
    /\ cv[r].pc = "cb_scene"
    /\ cv' = [cv EXCEPT ![r] = Report(@, 10 * Len(@.scenes) + @.i * 50, "resolve")]
    /\ UNCHANGED <<lifecycle, files, gate, at, temp_dir, output_dir>>

\* 222, 103: create_clip_from_scene awaits get_media_path.  A download
\* lands in the shared temp directory; a source that cannot be fetched
\* raises out of create_clip_from_scene (103 is outside its try) and the
\* except clause of 316-317 raises in turn: nothing is closed or removed on
\* that path.
compose_video_resolve(r) ==
    /\ cv[r].pc = "resolve"
    /\ LET c == cv[r]
           scene == c.scenes[c.i + 1]
           media == get_media_path(scene.source)
       IN IF ~media.ok
          THEN /\ cv' = [cv EXCEPT ![r] = Raised(c, media.exc)]
               /\ UNCHANGED temp_dir
          ELSE /\ temp_dir' = IF ~is_url(scene.source) THEN temp_dir
                              ELSE IF media.path \in DOMAIN temp_dir
                              THEN [temp_dir EXCEPT ![media.path] = @ \cup {r}]
                              ELSE temp_dir @@ (media.path :> {r})
               /\ cv' = [cv EXCEPT ![r] =
                    [c EXCEPT !.temps = IF is_url(scene.source) THEN @ \cup {media.path} ELSE @,
                              !.media_path = Some(media.path),
                              !.pc = "clip"]]
    /\ UNCHANGED <<lifecycle, files, gate, at, output_dir>>

\* 222-225, 105-143: the rest of create_clip_from_scene, and the clip is
\* appended with the scene's transition.
compose_video_clip(r) ==
    /\ cv[r].pc = "clip"
    /\ LET c == cv[r]
           scene == c.scenes[c.i + 1]
           made == create_clip_from_scene(c.i + 1, scene, c.media_path[1])
       IN IF ~made.ok
          THEN cv' = [cv EXCEPT ![r] = Raised(c, made.exc)]
          ELSE cv' = [cv EXCEPT ![r] =
                    [c EXCEPT !.open = @ \cup {c.i + 1},
                              !.clips = Append(@, [clip |-> made.clip,
                                                   transition |-> scene.transition,
                                                   decoder |-> made.decoder]),
                              !.media_path = None,
                              !.i = @ + 1,
                              !.pc = IF c.i + 1 = Len(c.scenes) THEN "cb70" ELSE "cb_scene"]]
    /\ UNCHANGED <<lifecycle, files, gate, at, temp_dir, output_dir>>

\* 227-228
compose_video_cb70(r) ==
    /\ cv[r].pc = "cb70"
    /\ cv' = [cv EXCEPT ![r] = Report(@, 70 * Len(@.scenes), "fold")]
    /\ UNCHANGED <<lifecycle, files, gate, at, temp_dir, output_dir>>

\* (mutant) the transition loop joining forward
compose_video_fold_forward(r, ok) ==
    /\ cv[r].pc = "fold"
    /\ IF ok
       THEN cv' = [cv EXCEPT ![r].final_clips = fold_clips_forward(cv[r].clips, 1, << >>),
                             ![r].pc = "cb80"]
       ELSE cv' = [cv EXCEPT ![r] = Raised(@, Exc("Exception", <<"cannot read frame">>))]
    /\ UNCHANGED <<lifecycle, files, gate, at, temp_dir, output_dir>>

\* 230-242.  ok: moviepy builds every joined clip; otherwise one of its
\* calls in apply_transition raises (it reads frames of the clips), and the
\* except clause of 316-317 raises in turn.
compose_video_fold(r, ok) ==
    /\ cv[r].pc = "fold"
    /\ IF ok
       THEN cv' = [cv EXCEPT ![r].final_clips = fold_clips(cv[r].clips, 1, << >>),
                             ![r].pc = "cb80"]
       ELSE cv' = [cv EXCEPT ![r] = Raised(@, Exc("Exception", <<"cannot read frame">>))]
    /\ UNCHANGED <<lifecycle, files, gate, at, temp_dir, output_dir>>

\* (mutant) the 80 checkpoint reporting 90
compose_video_cb80_as90(r) ==
    /\ cv[r].pc = "cb80"
    /\ cv' = [cv EXCEPT ![r] = Report(@, 90 * Len(@.scenes), "concat")]
    /\ UNCHANGED <<lifecycle, files, gate, at, temp_dir, output_dir>>

\* 244-245
compose_video_cb80(r) ==
    /\ cv[r].pc = "cb80"
    /\ cv' = [cv EXCEPT ![r] = Report(@, 80 * Len(@.scenes), "concat")]
    /\ UNCHANGED <<lifecycle, files, gate, at, temp_dir, output_dir>>

\* 247-251
compose_video_concat(r) ==
    /\ cv[r].pc = "concat"
    /\ cv' = [cv EXCEPT ![r].final_video =
                            Some(IF Len(cv[r].final_clips) = 1
                                 THEN cv[r].final_clips[1]
                                 ELSE concatenate_videoclips(cv[r].final_clips)),
                        ![r].pc = "cb90"]
    /\ UNCHANGED <<lifecycle, files, gate, at, temp_dir, output_dir>>

\* (mutant) completion reported before the file is written
compose_video_cb90_as100(r) ==
    /\ cv[r].pc = "cb90"
    /\ cv' = [cv EXCEPT ![r] = Report(@, 100 * Len(@.scenes), "write")]
    /\ UNCHANGED <<lifecycle, files, gate, at, temp_dir, output_dir>>

\* 258-259
compose_video_cb90(r) ==
    /\ cv[r].pc = "cb90"
    /\ cv' = [cv EXCEPT ![r] = Report(@, 90 * Len(@.scenes), "write")]
    /\ UNCHANGED <<lifecycle, files, gate, at, temp_dir, output_dir>>

\* 261-304: the output name is drawn and the file encoded.  ok: the encoder
\* goes through; otherwise write_videofile / write_gif raises and the except
\* clause of 316-317 re-raises.
compose_video_write(r, ok) ==
    /\ cv[r].pc = "write"
    /\ IF ok
       THEN /\ output_dir' = output_dir \cup {output_path(r)}
            /\ cv' = [cv EXCEPT ![r].output = Some(output_path(r)), ![r].pc = "cb100"]
       ELSE /\ cv' = [cv EXCEPT ![r] = Raised(@, Exc("OSError", <<"ffmpeg failed">>))]
            /\ UNCHANGED output_dir
    /\ UNCHANGED <<lifecycle, files, gate, at, temp_dir>>

\* 306-307
compose_video_cb100(r) ==
    /\ cv[r].pc = "cb100"
    /\ cv' = [cv EXCEPT ![r] = Report(@, 100 * Len(@.scenes), "close")]
    /\ UNCHANGED <<lifecycle, files, gate, at, temp_dir, output_dir>>

\* 309-314: every clip of clips and final_video are closed, the path
\* returned.  The downloaded files stay where they are.
compose_video_return(r) ==
    /\ cv[r].pc = "close"
    /\ cv' = [cv EXCEPT ![r].open = {}, ![r].pc = "returned"]
    /\ UNCHANGED <<lifecycle, files, gate, at, temp_dir, output_dir>>

\* VideoCompositionService.cleanup_temp_files (319-325), called for an
\* invocation that has ended: every download_* file of the shared directory
\* is unlinked.
cleanup_temp_files(r) ==
    /\ cv[r].pc \in {"returned", "raised"}
    /\ cv' = [cv EXCEPT ![r].pc = "cleaned"]
    /\ temp_dir' = << >>
    /\ UNCHANGED <<lifecycle, files, gate, at, output_dir>>

Cb10 == \E r \in Runs : compose_video_cb10(r)
CbScene == \E r \in Runs : compose_video_cb_scene(r)
Resolve == \E r \in Runs : compose_video_resolve(r)
MakeClip == \E r \in Runs : compose_video_clip(r)
Cb70 == \E r \in Runs : compose_video_cb70(r)
Fold == \E r \in Runs, ok \in BOOLEAN : compose_video_fold(r, ok)
Cb80 == \E r \in Runs : compose_video_cb80(r)
Concat == \E r \in Runs : compose_video_concat(r)
Cb90 == \E r \in Runs : compose_video_cb90(r)
Write == \E r \in Runs, ok \in BOOLEAN : compose_video_write(r, ok)
Cb100 == \E r \in Runs : compose_video_cb100(r)
Return == \E r \in Runs : compose_video_return(r)
Cleanup == \E r \in Runs : cleanup_temp_files(r)

NextRender ==
    Cb10 \/ CbScene \/ Resolve \/ MakeClip \/ Cb70 \/ Fold \/ Cb80 \/ Concat \/ Cb90 \/ Write
        \/ Cb100 \/ Return

\* One invocation, over scenes whose source may fail to download ("down") or
\* to decode ("u2" is no image).
RenderRequests ==
    SeqsUpTo(Scenes({"u1", "u2", "down"}, {"image"}, {Ticks(2 * DefaultTransitionDuration)},
                    {"none", "fade"}),
             MaxRenderScenes) \ { << >> }

InitRender ==
    /\ JobsInit
    /\ at = None
    /\ cv \in { [r \in Runs |-> IF r = 1 THEN Started(sc) ELSE IdleRun] : sc \in RenderRequests }
    /\ temp_dir = << >>
    /\ output_dir = {}

SpecRender == InitRender /\ [][NextRender]_vars

\* One invocation, over scenes of either length and every kind of
\* transition.
FoldRequests ==
    SeqsUpTo(Scenes({"u1"}, {"image"}, SceneDurations,
                    {"none", "fade", "crossfade", "slide_left", "zoom_in"}),
             MaxRenderScenes) \ { << >> }

InitFold ==
    /\ JobsInit
    /\ at = None
    /\ cv \in { [r \in Runs |-> IF r = 1 THEN Started(sc) ELSE IdleRun] : sc \in FoldRequests }
    /\ temp_dir = << >>
    /\ output_dir = {}

SpecFold == InitFold /\ [][NextRender]_vars

\* Every invocation in flight at once, each over one scene.
FilesRequests ==
    { <<sc>> : sc \in Scenes(Urls, {"image/video"}, {Ticks(2 * DefaultTransitionDuration)},
                              {"none"}) }

InitFiles ==
    /\ JobsInit
    /\ at = None
    /\ cv \in [Runs -> { Started(sc) : sc \in FilesRequests }]
    /\ temp_dir = << >>
    /\ output_dir = {}

\* One invocation over one scene: any source, any media kind, held for less
\* or for more than the half second the videos last.
SceneRequests ==
    { <<sc>> : sc \in Scenes(Sources, MediaKinds, SceneDurations, {"none"}) }

InitScene ==
    /\ JobsInit
    /\ at = None
    /\ cv \in { [r \in Runs |-> IF r = 1 THEN Started(sc) ELSE IdleRun] : sc \in SceneRequests }
    /\ temp_dir = << >>
    /\ output_dir = {}

SpecScene == InitScene /\ [][NextRender]_vars

NextFiles == NextRender \/ Cleanup

SpecFiles == InitFiles /\ [][NextFiles]_vars

\* ------------------------------------------------------------ properties
\* The rows present before and after a step.
Kept == DOMAIN jobs \cap DOMAIN jobs'

\* The coordinator's state machine (4.5): pending -> processing ->
\* {completed, failed}; pending | processing -> cancelled.
LegalTransition(old, new) ==
    \/ old = "pending" /\ new = "processing"
    \/ old = "processing" /\ new \in {"completed", "failed"}
    \/ old \in {"pending", "processing"} /\ new = "cancelled"

\* Requests that are past the pending check of process_job.
InTry(r) == pc[r] \in {"begin", "except"}

\* C1: every change of a job's stored status is a transition of the state
\* machine (checked on the runs in which no database call has raised).
C1_OnlyLegalTransitions ==
    [][faults' = 0 =>
        \A j \in Kept :
            jobs'[j].status # jobs[j].status
                => LegalTransition(jobs[j].status, jobs'[j].status)]_vars

\* C2: of the process_job requests for one job id, at most one gets past the
\* pending check; no two are in the try block for the same job.
C2_OneDriverPerJob ==
    \A r1, r2 \in Reqs :
        r1 # r2 /\ InTry(r1) /\ InTry(r2) => rjob[r1] # rjob[r2]

\* C3: once a job's status is completed, failed or cancelled, no later step
\* changes its status or its completed_at.
C3_TerminalSetOnce ==
    [][faults' = 0 =>
        \A j \in Kept :
            jobs[j].status \in Finished
                => /\ jobs'[j].status = jobs[j].status
                   /\ jobs'[j].completed_at = jobs[j].completed_at]_vars

\* C4: when a process_job request that went into the try block is answered,
\* its job (if the row still exists) is completed or failed, not processing.
C4_NeverLeftProcessing ==
    [][\A r \in Reqs :
        pc[r] = "except" /\ pc'[r] = "done" /\ rjob[r] \in DOMAIN jobs'
            => jobs'[rjob[r]].status \in {"completed", "failed"}]_vars

\* C5: a job whose render pipeline succeeds is moved to completed, never to
\* failed, and a completed job holds its output file, size, duration and
\* completion time (checked on the runs in which no database call raised).
C5_SuccessRecorded ==
    \A j \in DOMAIN jobs :
        /\ faults = 0 /\ compose_video(jobs[j].composition_config).ok
                => jobs[j].status # "failed"
        /\ jobs[j].status = "completed"
                => /\ jobs[j].output_file # None
                   /\ jobs[j].output_size # None
                   /\ jobs[j].duration # None
                   /\ jobs[j].completed_at # None

\* C6: the progress the pipeline reports is persisted: a job whose processing
\* has ended holds at least the first reported value, 10, and a completed
\* job holds exactly 100.
C6_ProgressPersisted ==
    \A j \in DOMAIN jobs :
        /\ jobs[j].status \in {"completed", "failed"} /\ faults = 0
                => jobs[j].progress >= 10
        /\ jobs[j].status = "completed" => jobs[j].progress = 100

\* C7: a failed job whose render pipeline fails holds the pipeline's failure
\* cause verbatim in error_message, and its retry_count is what it was.
C7_FailureRecorded ==
    \A j \in DOMAIN jobs :
        jobs[j].status = "failed" /\ ~compose_video(jobs[j].composition_config).ok
            => /\ jobs[j].error_message
                    = Some(compose_video(jobs[j].composition_config).error)
               /\ jobs[j].retry_count = 0

C9_EmptyRejected ==
    [][resp'.op = "compose" =>
        ((\E k \in Keys, wh \in BOOLEAN, ok \in BOOLEAN :
                submit_composition_job(k, << >>, wh, ok))
            => resp'.code = 422 /\ resp'.job = None /\ jobs' = jobs)]_vars

\* C9 witness: a zero-scene submit has just been refused while the table
\* holds a job.
C9_Witness ==
    resp = Response("compose", 422, None) /\ DOMAIN jobs # {}

\* C10: a POST /compose answered 200 had at least one scene, added exactly
\* one row with a fresh id, owned by the caller, pending, progress 0,
\* retry_count 0, returned that row, left every other row as it was and
\* moved no process_job request.
C10_SubmitAddsOnePending ==
    [][resp'.op = "compose" /\ resp'.code = 200 =>
        \A k \in Keys, sc \in SceneLists, wh \in BOOLEAN, ok \in BOOLEAN :
            submit_composition_job(k, sc, wh, ok)
                => /\ Len(sc) >= 1
                   /\ \E id \in JobIds \ DOMAIN jobs :
                        /\ DOMAIN jobs' = DOMAIN jobs \cup {id}
                        /\ jobs'[id].api_key = k
                        /\ jobs'[id].status = "pending"
                        /\ jobs'[id].progress = 0
                        /\ jobs'[id].retry_count = 0
                        /\ resp'.job = Some(to_job_response(id, jobs'[id]))
                        /\ resp'.job[1].status = "pending"
                   /\ \A j \in DOMAIN jobs : jobs'[j] = jobs[j]
                   /\ pc' = pc]_vars

\* C10 witness: a submit has just been answered 200 and the table holds the
\* new job next to an older one.
C10_Witness ==
    /\ resp.op = "compose" /\ resp.code = 200
    /\ Cardinality(DOMAIN jobs) = 2

\* C11: cancel moves a pending or processing job to cancelled and returns
\* true; for a job that is completed, failed or cancelled it returns false
\* and leaves the record as it was; and a job that is cancelled never
\* afterwards becomes completed or failed.
C11_CancelOnlyLive ==
    [][(\A j \in JobIds, k \in Keys, ok \in BOOLEAN :
            cancel(j, k, ok) /\ Found(jobs, j, k)
                => IF jobs[j].status \in {"pending", "processing"}
                   THEN ok => jobs'[j].status = "cancelled" /\ ret' = Some(TRUE)
                   ELSE jobs' = jobs /\ ret' = Some(FALSE))
       /\ (\A i \in Kept :
            jobs[i].status = "cancelled"
                => jobs'[i].status \notin {"completed", "failed"})]_vars

\* C12: every step that takes a job with a webhook URL into completed,
\* failed or cancelled makes exactly one delivery attempt and records it
\* (webhook_attempts goes up by one, webhook_sent holds its outcome); no
\* other step touches the delivery record.
C12_WebhookOnTerminal ==
    [][\A j \in Kept :
        IF jobs[j].webhook_url # None
           /\ jobs[j].status \notin Finished /\ jobs'[j].status \in Finished
        THEN jobs'[j].webhook_attempts = jobs[j].webhook_attempts + 1
        ELSE /\ jobs'[j].webhook_attempts = jobs[j].webhook_attempts
             /\ jobs'[j].webhook_sent = jobs[j].webhook_sent]_vars

\* The overlap a crossfade call used: how long before the end of clip1 its
\* result starts clip2.
Overlap(c) == c.clip1.dur - c.result[1].starts[2][2]

\* C15 as claimed: a crossfade whose requested window is at least the
\* shorter clip's duration (equal included) uses half that duration as
\* overlap; a shorter window is used as it is.
C15_CrossfadeHalvesFromMin ==
    at # None /\ at[1].result # None /\ at[1].transition = "crossfade"
        => LET c == at[1]
               m == Min(c.clip1.dur, c.clip2.dur)
           IN Overlap(c) = IF c.duration >= m THEN m \div 2 ELSE c.duration

\* C15 as amended: the overlap is half the shorter clip's duration when the
\* requested window is strictly longer than it, and the requested window
\* when it is equal or shorter; the result lasts dur(a) + dur(b) - overlap.
C15_CrossfadeHalvesAboveMin ==
    at # None /\ at[1].result # None /\ at[1].transition = "crossfade"
        => LET c == at[1]
               m == Min(c.clip1.dur, c.clip2.dur)
           IN /\ Overlap(c) = IF c.duration > m THEN m \div 2 ELSE c.duration
              /\ c.result[1].joins = << <<"crossfade", Overlap(c)>> >>
              /\ c.result[1].dur = c.clip1.dur + c.clip2.dur - Overlap(c)

\* C15 witness: a crossfade whose window equals the shorter clip's duration
\* has returned.
C15_Witness ==
    /\ at # None /\ at[1].result # None /\ at[1].transition = "crossfade"
    /\ at[1].duration = Min(at[1].clip1.dur, at[1].clip2.dur)

\* C16: for transition none and for every value other than fade, crossfade
\* and slide_left, apply_transition returns the plain concatenation: clip1
\* from 0, clip2 from dur(clip1), no effect, duration dur(clip1) + dur(clip2).
C16_OthersConcatenate ==
    at # None /\ at[1].result # None
        /\ at[1].transition \in TransitionType \ {"fade", "crossfade", "slide_left"}
        => LET c == at[1] IN
           /\ c.result[1].dur = c.clip1.dur + c.clip2.dur
           /\ c.result[1].starts = << <<1, 0>>, <<2, c.clip1.dur>> >>
           /\ c.result[1].joins = << <<"none", 0>> >>

\* C16 witness: a zoom_in call has returned.
C16_Witness ==
    at # None /\ at[1].result # None /\ at[1].transition = "zoom_in"

\* The values of a sequence.
Range(f) == { f[k] : k \in DOMAIN f }

NonDecreasing(f) == \A k \in 1..(Len(f) - 1) : f[k] <= f[k + 1]

\* C13: in one compose_video run over N >= 1 scenes the values passed to the
\* progress callback never decrease; a run that has returned passed 100
\* last; a run that has raised never passed 100.  (Values are kept times N.)
C13_ProgressMonotone ==
    \A r \in Runs :
        LET c == cv[r]
            N == Len(c.scenes)
        IN /\ NonDecreasing(c.reported)
           /\ c.pc = "returned"
                => c.reported # << >> /\ c.reported[Len(c.reported)] = 100 * N
           /\ c.pc = "raised" => 100 * N \notin Range(c.reported)

\* C13 witness: a run over at least two scenes has returned.
C13_Witness ==
    \E r \in Runs : cv[r].pc = "returned" /\ Len(cv[r].scenes) >= 2

\* C14 as claimed: the checkpoints 70, 80, 90, 100 are reported in this
\* order, none twice, and each only after the stage it names has completed:
\* 70 after the fold of the clips, 80 after the concatenation, 90 and 100
\* not before that, 100 after the encode.
C14_CheckpointAfterStage ==
    \A r \in Runs :
        LET c == cv[r]
            N == Len(c.scenes)
            R == Range(c.reported)
        IN /\ \A k \in 1..(Len(c.reported) - 1) :
                    c.reported[k] >= 70 * N => c.reported[k] < c.reported[k + 1]
           /\ 70 * N \in R => c.final_clips # << >>
           /\ 80 * N \in R => c.final_video # None
           /\ 90 * N \in R => c.final_video # None
           /\ 100 * N \in R => c.output # None

\* Everything a run over N scenes reports, in order, times N: 10, then
\* 10 + 50 i / N before scene i (from 0), then 70, 80, 90, 100.
ExpectedReports(N) ==
    << 10 * N >> \o [k \in 1..N |-> 10 * N + (k - 1) * 50]
        \o << 70 * N, 80 * N, 90 * N, 100 * N >>

\* C14 as amended: what a run has reported is an initial part of
\* ExpectedReports, the whole of it when the run has returned, so 70, 80,
\* 90, 100 come in this order, strictly increasing, above every scene
\* value, none skipped or repeated; 70, 80 and 90 are each reported when the
\* stage before has completed and before the stage they announce has: 70
\* with every clip made and nothing folded until the fold step, 80 with the
\* clips folded, 90 with the video concatenated; 100 after the encode.
C14_CheckpointBeforeStage ==
    \A r \in Runs :
        LET c == cv[r]
            N == Len(c.scenes)
            R == Range(c.reported)
        IN c.pc # "idle" =>
           /\ Len(c.reported) <= N + 5
           /\ c.reported = SubSeq(ExpectedReports(N), 1, Len(c.reported))
           /\ c.pc = "returned" => c.reported = ExpectedReports(N)
           /\ 70 * N \in R => Len(c.clips) = N
           /\ c.pc = "fold" => 70 * N \in R /\ c.final_clips = << >>
           /\ 80 * N \in R => c.final_clips # << >>
           /\ c.pc = "concat" => 80 * N \in R /\ c.final_video = None
           /\ 90 * N \in R => c.final_video # None
           /\ c.pc = "write" => 90 * N \in R /\ c.output = None
           /\ 100 * N \in R => c.output # None

\* C14 witness: 70 has been reported and the fold has not yet run.
C14_Witness ==
    \E r \in Runs :
        /\ cv[r].pc = "fold" /\ Len(cv[r].scenes) >= 2
        /\ 70 * Len(cv[r].scenes) \in Range(cv[r].reported)

\* The left fold of the compositor over clips from i on: each clip is joined
\* onto the whole accumulated result with its own transition.
RECURSIVE LeftFold(_, _, _)
LeftFold(clips, i, acc) ==
    IF i > Len(clips) THEN acc
    ELSE LeftFold(clips, i + 1,
                  apply_transition(acc, clips[i].clip, clips[i].transition,
                                   Ticks(DefaultTransitionDuration)))

\* C17 as claimed: the video compose_video produces is the left fold of the
\* compositor over the scenes in order, starting from the first clip.
C17_LeftFoldOfAll ==
    \A r \in Runs :
        cv[r].final_video # None
            => cv[r].final_video[1] = LeftFold(cv[r].clips, 2, cv[r].clips[1].clip)

\* The scenes that start a piece: the first, and every later scene whose
\* transition is none.
PieceStarts(clips) == {1} \cup { i \in 2..Len(clips) : clips[i].transition = "none" }

\* The scenes of the piece starting at scene s: up to the next start.
Piece(clips, s) ==
    LET later == { t \in PieceStarts(clips) : t > s }
        last == IF later = {} THEN Len(clips)
                ELSE (CHOOSE t \in later : \A u \in later : t <= u) - 1
    IN SubSeq(clips, s, last)

\* The pieces in order, each left-folded on its own.
Pieces(clips) ==
    [ k \in 1..Cardinality(PieceStarts(clips)) |->
        LET s == CHOOSE t \in PieceStarts(clips) :
                    Cardinality({ u \in PieceStarts(clips) : u <= t }) = k
            piece == Piece(clips, s)
        IN LeftFold(piece, 2, piece[1].clip) ]

\* C17 as amended: scene i (i >= 2) with a transition other than none is
\* joined, with its own transition, onto the joined scenes since the most
\* recent scene whose transition is none (or since scene 1), not onto
\* everything before it; a scene whose transition is none starts a new
\* piece; the video is the plain concatenation of the pieces, scenes in
\* order; the first scene's transition has no effect; the duration is that
\* of the concatenation.
C17_FoldOfPieces ==
    \A r \in Runs :
        cv[r].final_video # None
            => LET clips == cv[r].clips
                   video == cv[r].final_video[1]
                   first_none == [clips EXCEPT ![1].transition = "none"]
               IN /\ video = concatenate_videoclips(Pieces(clips))
                  /\ video = concatenate_videoclips(Pieces(first_none))
                  /\ [k \in 1..Len(video.starts) |-> video.starts[k][1]]
                        = [k \in 1..Len(clips) |-> k]

\* C17 witness: a video has been produced from three scenes, the second
\* with transition none and the third crossfaded.
C17_Witness ==
    \E r \in Runs :
        /\ cv[r].final_video # None /\ Len(cv[r].clips) = 3
        /\ cv[r].clips[2].transition = "none"
        /\ cv[r].clips[3].transition = "crossfade"

\* C18: when compose_video has returned or raised, every clip it opened is
\* closed and every file it downloaded is gone from the temp directory.
C18_ReleasedOnExit ==
    \A r \in Runs :
        cv[r].pc \in {"returned", "raised"}
            => cv[r].open = {} /\ cv[r].temps \cap DOMAIN temp_dir = {}

\* An invocation that has been called and has neither returned nor raised.
InFlight(r) == cv[r].pc \notin {"idle", "returned", "raised", "cleaned"}

\* C19: no path of the temp directory is written by two invocations, and
\* every file an in-flight invocation downloaded is still there: no other
\* invocation's cleanup_temp_files has removed it.
C19_NoSharedPath ==
    /\ \A p \in DOMAIN temp_dir : Cardinality(temp_dir[p]) <= 1
    /\ \A r \in Runs : InFlight(r) => cv[r].temps \subseteq DOMAIN temp_dir

\* A header that get_api_key must refuse: none, not a Bearer header, an
\* empty key, or a key outside settings.api_keys.
BadCredentials(h) ==
    h = None \/ h[1][1] # "Bearer " \/ h[1][2] = "" \/ h[1][2] \notin Keys

\* C20: a request to /upload, /compose or /jobs with bad credentials is
\* answered 401 with no job in the body, and no job or file record is
\* added, changed or removed.
C20_BadCredentialsRefused ==
    [][\A h \in Headers :
        BadCredentials(h)
        /\ (\/ \E sc \in SceneLists, wh \in BOOLEAN, ok \in BOOLEAN : compose_request(h, sc, wh, ok)
            \/ \E ok \in BOOLEAN : upload_request(h, ok)
            \/ \E j \in JobIds, ok \in BOOLEAN : job_request(h, j, ok)
            \/ \E j \in JobIds, ok \in BOOLEAN : delete_request(h, j, ok))
        => resp'.code = 401 /\ resp'.job = None /\ jobs' = jobs /\ files' = files]_vars

\* C22: a compose_video run over N >= 1 scenes ends in one of two ways.  It
\* returns one output path, and the file of that path is in the output
\* directory (the encode step wrote it), with nothing raised.  Or it raises
\* one exception, of the one type ValueError whatever raised in the try
\* block (the download, the decode, the joining of clips, the encoder), and
\* its message is "Video composition failed" followed by the message of the
\* cause.  A run that has not raised holds no error.
C22_ReturnsOrRaises ==
    \A r \in Runs :
        LET c == cv[r] IN
        /\ c.pc = "returned"
                => /\ c.error = None /\ c.cause = None
                   /\ c.output = Some(output_path(r))
                   /\ output_path(r) \in output_dir
        /\ c.pc = "raised"
                => /\ c.cause # None /\ c.error # None
                   /\ c.error[1].type = "ValueError"
                   /\ c.error[1].message
                        = <<"Video composition failed">> \o c.cause[1].message
        /\ c.error # None => c.pc \in {"raised", "cleaned"}

\* C22 witness: a run over two scenes has raised because the encoder did,
\* with an exception that is no ValueError.
C22_Witness ==
    \E r \in Runs :
        /\ cv[r].pc = "raised" /\ Len(cv[r].clips) = 2
        /\ cv[r].final_video # None
        /\ cv[r].cause # None /\ cv[r].cause[1].type = "OSError"

\* The scene a run is working on.
CurrentScene(c) == c.scenes[c.i + 1]

\* A source is available when it is a URL that answers with a 2xx status, or
\* a file id the file store holds.
Available(source) ==
    IF is_url(source) THEN HttpStatus(source) \in 200..299
    ELSE source \in StoredFiles

\* The run raised while resolving its current scene's source.
RaisedResolving(c) ==
    c.pc = "raised" /\ c.i < Len(c.scenes) /\ c.media_path = None

\* C23: get_media_path hands a path to create_clip_from_scene only for an
\* available source, and fails only for an unavailable one: a URL resolves
\* exactly when it answers 2xx, a file id exactly when the file store has
\* the file.
C23_ResolvesOnlyAvailable ==
    \A r \in Runs :
        LET c == cv[r] IN
        /\ c.media_path # None => Available(CurrentScene(c).source)
        /\ RaisedResolving(c) => ~Available(CurrentScene(c).source)

\* What a run reported during the scene phase: everything after the initial
\* 10 and before 70, once 70 has been reported.
ScenePhase(c) == SubSeq(c.reported, 2, Len(c.scenes) + 1)

\* C24 as claimed: a value is reported after each scene is processed, the
\* value after scene k of N being 10 + 50 k / N, so that the last value of
\* the scene phase is exactly 60.  (Values are kept times N.)
C24_ProgressAfterScene ==
    \A r \in Runs :
        LET c == cv[r]
            N == Len(c.scenes)
        IN /\ \A k \in 1..N :
                (10 * N + 50 * k) \in Range(c.reported) => Len(c.clips) >= k
           /\ 70 * N \in Range(c.reported)
                => /\ ScenePhase(c) = [k \in 1..N |-> 10 * N + 50 * k]
                   /\ c.reported[N + 1] = 60 * N

\* C24 as amended: a value is reported before each scene is processed, the
\* value before scene k of N (k from 1) being 10 + 50 (k - 1) / N: the
\* values grow linearly from 10, the first repeats the initial 10, the last
\* is 60 - 50 / N, and 60 is never reported.
C24_ProgressBeforeScene ==
    \A r \in Runs :
        LET c == cv[r]
            N == Len(c.scenes)
        IN c.pc # "idle" =>
           /\ \A k \in 1..N :
                Len(c.reported) >= k + 1
                    => /\ c.reported[k + 1] = 10 * N + 50 * (k - 1)
                       /\ Len(c.clips) >= k - 1
           /\ c.pc \in {"resolve", "clip"}
                => /\ Len(c.reported) = c.i + 2
                   /\ Len(c.clips) = c.i
           /\ 70 * N \in Range(c.reported)
                => /\ ScenePhase(c) = [k \in 1..N |-> 10 * N + 50 * (k - 1)]
                   /\ c.reported[N + 1] = 60 * N - 50
           /\ 60 * N \notin Range(c.reported)

\* C24 witness: a run over three scenes has made its clips and reported 70.
C24_Witness ==
    \E r \in Runs :
        /\ Len(cv[r].scenes) = 3 /\ Len(cv[r].clips) = 3
        /\ cv[r].pc = "cb80"

\* The file behind a scene's source, once resolved.
FileOf(scene) == FileAt(get_media_path(scene.source).path)

\* The run raised while making the clip of its current scene.
RaisedDecoding(c) ==
    c.pc = "raised" /\ c.i < Len(c.scenes) /\ c.media_path # None

\* C25: every clip of a run comes from a decode that succeeded, chosen by
\* the scene's kind.  image: the image decode, the clip held for the scene's
\* duration.  video: the video decode, the clip cut to min(scene duration,
\* source duration).  image/video: the image decode when it succeeds, the
\* video decode only when it does not.  No other kind yields a clip.  And
\* the clip step raises exactly when the decode the kind allows fails: the
\* image decode for image, the video decode for video, both for
\* image/video, always for another kind.
C25_ClipByKind ==
    \A r \in Runs :
        LET c == cv[r] IN
        /\ \A k \in 1..Len(c.clips) :
                LET scene == c.scenes[k]
                    made == c.clips[k]
                    f == FileOf(scene)
                    by_image == /\ made.decoder = "image" /\ f.image
                                /\ made.clip.dur = scene.duration
                    by_video == /\ made.decoder = "video" /\ f.video
                                /\ made.clip.dur = Min(scene.duration, f.duration)
                IN /\ scene.media_type = "image" => by_image
                   /\ scene.media_type = "video" => by_video
                   /\ scene.media_type = "image/video"
                        => IF f.image THEN by_image ELSE by_video
                   /\ scene.media_type \in MediaType
                   /\ made.clip.starts = << <<k, 0>> >>
        /\ RaisedDecoding(c)
                => LET scene == CurrentScene(c)
                       f == FileAt(c.media_path[1])
                   IN /\ scene.media_type = "image" => ~f.image
                      /\ scene.media_type = "video" => ~f.video
                      /\ scene.media_type = "image/video" => ~f.image /\ ~f.video
                      /\ c.cause[1].type = "ValueError"
                      /\ SubSeq(c.cause[1].message, 1, 2)
                            = <<"Failed to create clip from", c.i + 1>>
        /\ c.pc = "cb_scene" \/ c.pc = "cb70" => Len(c.clips) = c.i

\* C25 witness: an image/video scene longer than its source, which is no
\* image, has become a video clip.
C25_Witness ==
    \E r \in Runs :
        /\ Len(cv[r].clips) = 1
        /\ cv[r].scenes[1].media_type = "image/video"
        /\ ~FileOf(cv[r].scenes[1]).image
        /\ cv[r].clips[1].decoder = "video"
        /\ cv[r].clips[1].clip.dur < cv[r].scenes[1].duration

\* C26: the clip apply_transition(a, b, t, d) returns lasts dur(a) + dur(b)
\* for fade, with b starting when a ends; dur(a) + dur(b) - w for crossfade,
\* where w is the window the crossfade used and b starts w before a ends;
\* and dur(a) + d for slide_left, whatever dur(b) is.
C26_TransitionDurations ==
    at # None /\ at[1].result # None
        => LET c == at[1]
               a == c.clip1.dur
               b == c.clip2.dur
               out == c.result[1]
               w == out.joins[1][2]
               start_b == out.starts[2][2]
           IN /\ c.transition = "fade"
                    => out.dur = a + b /\ start_b = a /\ w = c.duration
              /\ c.transition = "crossfade"
                    => out.dur = a + b - w /\ start_b = a - w /\ w > 0 /\ w <= c.duration
              /\ c.transition = "slide_left"
                    => out.dur = a + c.duration /\ start_b = a /\ w = c.duration

\* C26 witness: a slide_left call has returned whose second clip is longer
\* than the window.
C26_Witness ==
    /\ at # None /\ at[1].result # None /\ at[1].transition = "slide_left"
    /\ at[1].clip2.dur > at[1].duration

\* C27: every job whose status is processing, completed or failed holds a
\* start time, and no pending job holds one.
C27_StartRecorded ==
    \A j \in DOMAIN jobs :
        /\ jobs[j].status \in {"processing", "completed", "failed"}
                => jobs[j].started_at # None
        /\ jobs[j].status = "pending" => jobs[j].started_at = None

\* What a key can observe: each of its get_job answers and each of its lists.
Observes(db, api_key) ==
    [ get |-> [j \in JobIds |-> get_job(db, j, api_key)],
      list |-> [q \in JobListQueries |-> list_jobs(db, api_key, q)] ]

\* The step is a direct call of the method, and it returned.
Called(call) ==
    calls' = calls + 1 /\ ret' # None /\ ret'[1].call = call /\ ~ret'[1].raised

\* The job id names a job created with the key.
Owns(api_key, job_id) == job_id \in DOMAIN jobs /\ jobs[job_id].api_key = api_key

\* The rows of the other keys are all there and as they were.
OthersUntouched(api_key) ==
    \A i \in DOMAIN jobs :
        jobs[i].api_key # api_key => i \in DOMAIN jobs' /\ jobs'[i] = jobs[i]

\* C28: get_job, list_jobs, update_job_status and delete_job called with
\* key K return only jobs created with K and modify only such jobs; called
\* with the id of another key's job (or of none) they return None / False
\* and leave the table as it was; and no call by K changes what any other
\* key observes.
C28_OwnerScoped ==
    [][LET K == ret'[1].key
           j == ret'[1].on
           value == ret'[1].value
           others_see_the_same ==
               \A K2 \in Keys \ {K} : Observes(jobs', K2) = Observes(jobs, K2)
           only_row_j_changed ==
               \A i \in DOMAIN jobs \ {j} : i \in DOMAIN jobs' /\ jobs'[i] = jobs[i]
       IN /\ Called("get_job")
                => /\ jobs' = jobs
                   /\ IF Owns(K, j) THEN value = Some(to_job_response(j, jobs[j]))
                      ELSE value = None
          /\ Called("list_jobs")
                => /\ jobs' = jobs
                   /\ \A n \in 1..Len(value) : Owns(K, value[n].id)
          /\ Called("update_job_status")
                => /\ OthersUntouched(K) /\ only_row_j_changed /\ others_see_the_same
                   /\ ~Owns(K, j) => value = FALSE /\ jobs' = jobs
          /\ Called("delete_job")
                => /\ OthersUntouched(K) /\ only_row_j_changed /\ others_see_the_same
                   /\ ~Owns(K, j) => value = FALSE /\ jobs' = jobs]_vars

\* C28 witness: the table holds a job of each key, and update_job_status
\* called with the id of another key's job has just returned False.
C28_Witness ==
    /\ ret # None /\ ret[1].call = "update_job_status" /\ ret[1].value = FALSE
    /\ ret[1].on \in DOMAIN jobs /\ jobs[ret[1].on].api_key # ret[1].key
    /\ faults = 0
    /\ \E i, j \in DOMAIN jobs : jobs[i].api_key # jobs[j].api_key

\* The checks that allowed a request of the key in the window by the
\* counter (Redis answered).
AllowedByCount(api_key, w) ==
    { c \in Checks :
        /\ gate.check[c].pc = "done" /\ gate.check[c].is_allowed
        /\ ~gate.check[c].redis_failed
        /\ gate.check[c].api_key = api_key /\ gate.check[c].window_start = w }

\* C29: for each key and window the checks that allow a request by the
\* counter are at most rate_limit_requests, however the checks interleave;
\* the requests_remaining a check returns is never negative; and a check
\* during which Redis raised allows the request.
C29_RateLimitHolds ==
    /\ \A k \in Keys, w \in Windows :
            Cardinality(AllowedByCount(k, w)) <= RateLimitRequests
    /\ \A c \in Checks :
            gate.check[c].pc = "done"
                => /\ gate.check[c].requests_remaining >= 0
                   /\ gate.check[c].redis_failed => gate.check[c].is_allowed

====
